---- MODULE Spec2Model ----
(***************************************************************************)
(* A model of confluence.py: the module start-up (environment, PORT,       *)
(* required credentials), the transport adapter make_confluence_request    *)
(* and the four tool handlers list_spaces, get_page_content,               *)
(* search_content and list_pages_in_space.                                 *)
(*                                                                         *)
(* Python values are modelled as follows.                                  *)
(*   str            a TLA+ string                                          *)
(*   int            an integer                                             *)
(*   Optional[x]    None is <<>>, a present value v is <<v>>                *)
(*   dict           a function whose DOMAIN is the set of keys             *)
(*   list           a sequence                                             *)
(***************************************************************************)
EXTENDS Integers, Sequences, FiniteSets, TLC

VARIABLES
    env,                  \* os.environ after load_dotenv(): name -> Optional[str]
    phase,                \* "loading" | "aborted" | "running"
    port,                 \* mcp.settings.port, Optional[int]
    CONFLUENCE_BASE_URL,  \* module global, Optional[str]
    USERNAME,             \* module global, Optional[str]
    API_TOKEN,            \* module global, Optional[str]
    pc,                   \* "idle" | "awaiting" | "returned" | "raised"
    call,                 \* the invocation in progress or last finished
    url,                  \* url handed to make_confluence_request
    params,               \* parameter mapping handed to make_confluence_request
    client,               \* the invocation's httpx.AsyncClient: "none" | "open" | "closed"
    requests,             \* HTTP requests issued by the invocation
    adapter,              \* make_confluence_request: "idle" | "awaiting" | "returned" | "raised"
    outcome,              \* how the awaited HTTP call ended
    events,               \* what the invocation did, in order
    data,                 \* value make_confluence_request returned
    ret,                  \* value the call returned: [type, val]
    exc                   \* exception that left the call, "" when none

vars == <<env, phase, port, CONFLUENCE_BASE_URL, USERNAME, API_TOKEN, pc, call,
          url, params, client, requests, adapter, outcome, events, data, ret, exc>>

config == <<env, phase, port, CONFLUENCE_BASE_URL, USERNAME, API_TOKEN>>

-----------------------------------------------------------------------------
(* Bounds of the model.                                                    *)

\* longest "results" list of an upstream payload
MaxItems == 2
\* longest label list of a page payload
MaxLabels == 2

-----------------------------------------------------------------------------
(* Python primitives.                                                      *)

None == <<>>
Some(v) == <<v>>
EmptyDict == [k \in {} |-> k]

\* bool(x) of an Optional[str]: None and "" are falsy
Truthy(o) == o # None /\ o[1] # ""

\* "{x}" inside an f-string, for an Optional[str]
Fmt(o) == IF o = None THEN "None" ELSE o[1]

\* d.get(k, default)
Get(d, k, default) == IF k \in DOMAIN d THEN d[k] ELSE default

\* d[k] = v
Put(d, k, v) == [x \in DOMAIN d \cup {k} |-> IF x = k THEN v ELSE d[x]]

\* sub in s
Contains(s, sub) ==
    \E i \in 1..(Len(s) - Len(sub) + 1) : SubSeq(s, i, i + Len(sub) - 1) = sub

Digits == <<"0", "1", "2", "3", "4", "5", "6", "7", "8", "9">>

IsDigit(c) == \E d \in 1..10 : Digits[d] = c

DigitVal(c) == (CHOOSE d \in 1..10 : Digits[d] = c) - 1

\* str(n) of an int, as an f-string renders a JSON number
RECURSIVE NatStr(_)
NatStr(n) == IF n < 10 THEN Digits[n + 1] ELSE NatStr(n \div 10) \o Digits[(n % 10) + 1]

PyStr(n) == IF n < 0 THEN "-" \o NatStr(0 - n) ELSE NatStr(n)

\* s.strip() for the blanks int() skips
RECURSIVE LStrip(_)
LStrip(s) == IF Len(s) > 0 /\ Head(s) \in {" ", "\t", "\n"} THEN LStrip(Tail(s)) ELSE s

RECURSIVE RStrip(_)
RStrip(s) ==
    IF Len(s) > 0 /\ SubSeq(s, Len(s), Len(s)) \in {" ", "\t", "\n"}
    THEN RStrip(SubSeq(s, 1, Len(s) - 1))
    ELSE s

\* the digits of an int() literal after an optional sign
Unsigned(s) == IF Len(s) > 0 /\ Head(s) \in {"+", "-"} THEN Tail(s) ELSE s

\* int(s) succeeds: blanks, an optional sign, then one or more decimal digits
IntParses(s) ==
    LET t == Unsigned(RStrip(LStrip(s)))
    IN  Len(t) > 0 /\ \A i \in 1..Len(t) : IsDigit(SubSeq(t, i, i))

RECURSIVE DigitsVal(_)
DigitsVal(t) ==
    IF Len(t) = 0 THEN 0
    ELSE 10 * DigitsVal(SubSeq(t, 1, Len(t) - 1)) + DigitVal(SubSeq(t, Len(t), Len(t)))

\* int(s), where IntParses(s)
IntOf(s) ==
    LET b == RStrip(LStrip(s))
    IN  IF Head(b) = "-" THEN 0 - DigitsVal(Unsigned(b)) ELSE DigitsVal(Unsigned(b))

\* the characters str.encode('ascii') accepts, as far as the model's strings use them
AsciiChars ==
    {" ", "!", "\"", "#", "$", "%", "&", "'", "(", ")", "*", "+", ",", "-", ".", "/",
     "0", "1", "2", "3", "4", "5", "6", "7", "8", "9", ":", ";", "<", "=", ">", "?", "@",
     "A", "B", "C", "D", "E", "F", "G", "H", "I", "J", "K", "L", "M", "N", "O", "P", "Q",
     "R", "S", "T", "U", "V", "W", "X", "Y", "Z", "[", "\\", "]", "^", "_",
     "a", "b", "c", "d", "e", "f", "g", "h", "i", "j", "k", "l", "m", "n", "o", "p", "q",
     "r", "s", "t", "u", "v", "w", "x", "y", "z", "{", "|", "}", "~", "\t", "\n"}

\* s.encode('ascii') does not raise UnicodeEncodeError
AsciiEncodable(s) == \A i \in 1..Len(s) : SubSeq(s, i, i) \in AsciiChars

-----------------------------------------------------------------------------
(* Module start-up, confluence.py lines 18-34.                             *)

DefaultPort == 8000

\* lines 18-27: PORT unset or not an int literal falls back to 8000
PortSetting(e) ==
    IF e.PORT = None THEN DefaultPort
    ELSE IF IntParses(e.PORT[1]) THEN IntOf(e.PORT[1])
    ELSE DefaultPort

\* a start-up check that forgets the base URL
MissingRequiredNoBaseUrl(e) == ~Truthy(e.USERNAME) \/ ~Truthy(e.API_TOKEN)

\* line 33: not CONFLUENCE_BASE_URL or not USERNAME or not API_TOKEN
MissingRequired(e) ==
    ~Truthy(e.CONFLUENCE_BASE_URL) \/ ~Truthy(e.USERNAME) \/ ~Truthy(e.API_TOKEN)

NoCall == [tool |-> "none"]

NoOutcome == [kind |-> "none", status |-> 0, parses |-> FALSE, body |-> EmptyDict, msg |-> ""]

InvocationIdle ==
    /\ pc = "idle"
    /\ call = NoCall
    /\ url = ""
    /\ params = EmptyDict
    /\ client = "none"
    /\ requests = 0
    /\ adapter = "idle"
    /\ outcome = NoOutcome
    /\ events = <<>>
    /\ data = EmptyDict
    /\ ret = [type |-> "none", val |-> None]
    /\ exc = ""

\* The module body runs top to bottom: PORT, the three getenv calls, then the
\* check that raises ValueError; only a module that loaded reaches mcp.run().
Startup ==
    /\ phase = "loading"
    /\ port' = Some(PortSetting(env))
    /\ CONFLUENCE_BASE_URL' = env.CONFLUENCE_BASE_URL
    /\ USERNAME' = env.USERNAME
    /\ API_TOKEN' = env.API_TOKEN
    /\ phase' = IF MissingRequired(env) THEN "aborted" ELSE "running"
    /\ UNCHANGED <<env, pc, call, url, params, client, requests, adapter, outcome,
                   events, data, ret, exc>>

-----------------------------------------------------------------------------
(* The transport adapter make_confluence_request, confluence.py lines 44-71. *)

\* a guard that forgets the API token
MissingCredentialsUsernameOnly == ~Truthy(USERNAME)

\* line 46: not USERNAME or not API_TOKEN
MissingCredentials == ~Truthy(USERNAME) \/ ~Truthy(API_TOKEN)

\* line 47
CredentialsError == [error |-> "Please set your Confluence username and API token"]

\* line 50: f"{USERNAME}:{API_TOKEN}"
auth_string == Fmt(USERNAME) \o ":" \o Fmt(API_TOKEN)

\* response.raise_for_status() lets a 2xx status pass
IsSuccess(status) == status >= 200 /\ status < 300

\* Lines 60-71, what the call returns once the HTTP call is over. An outcome o is
\*   kind "network"   client.get raised an httpx.HTTPError (connect, timeout, ...)
\*   kind "other"     client.get raised some other Exception
\*   kind "response"  a response with o.status arrived; o.parses says whether its
\*                    body is JSON, o.body is the parsed mapping
\* and o.msg is str(e) of the exception raised, if one is.
Classify(o) ==
    IF o.kind = "network" THEN [error |-> "Error making request: " \o o.msg]
    ELSE IF o.kind = "other" THEN [error |-> "Unexpected error: " \o o.msg]
    ELSE IF ~IsSuccess(o.status) THEN [error |-> "Error making request: " \o o.msg]
    ELSE IF ~o.parses THEN [error |-> "Unexpected error: " \o o.msg]
    ELSE o.body

-----------------------------------------------------------------------------
(* The tool handlers, confluence.py lines 73-227.                          *)

DefaultLimit == 25
DefaultStart == 0

\* "given or default": a 0 passed by the caller is replaced by the default
ArgOrDefault(given, default) == IF given = None \/ given[1] = 0 THEN default ELSE given[1]

\* the value a parameter is bound to: the default when the caller omits it
Arg(given, default) == IF given = None THEN default ELSE given[1]

RECURSIVE JoinNoSeparator(_, _)
\* the blocks run together, the separator forgotten
JoinNoSeparator(blocks, sep) ==
    IF Len(blocks) = 0 THEN "" ELSE blocks[1] \o JoinNoSeparator(Tail(blocks), sep)

RECURSIVE Join(_, _)
\* sep.join(blocks)
Join(blocks, sep) ==
    IF Len(blocks) = 0 THEN ""
    ELSE IF Len(blocks) = 1 THEN blocks[1]
    ELSE blocks[1] \o sep \o Join(Tail(blocks), sep)

Separator == "\n---\n"

\* what a handler hands back: a str, the transport's mapping, or an exception
ReturnStr(text) == [exc |-> "", type |-> "str", val |-> text]
ReturnDict(d) == [exc |-> "", type |-> "dict", val |-> d]
Raise(e) == [exc |-> e, type |-> "none", val |-> None]

\* lines 96-97, 125-126, 174-175, 214-215: if "error" in data: return data
IsError(d) == "error" \in DOMAIN d

\* lines 86-93
list_spaces_url == Fmt(CONFLUENCE_BASE_URL) \o "/space"

\* the filter sent under the key spaceKey instead of name
list_spaces_params_spaceKey(c) ==
    LET base == [limit |-> Arg(c.limit, DefaultLimit),
                 start |-> Arg(c.start, DefaultStart),
                 expand |-> "description.plain,homepage"]
    IN  IF Truthy(c.query) THEN Put(base, "spaceKey", c.query[1]) ELSE base

list_spaces_params(c) ==
    LET base == [limit |-> Arg(c.limit, DefaultLimit),
                 start |-> Arg(c.start, DefaultStart),
                 expand |-> "description.plain,homepage"]
    IN  IF Truthy(c.query) THEN Put(base, "name", c.query[1]) ELSE base

\* lines 102-107
space_info(space) ==
    "\n            Space: " \o Get(space, "name", "Unknown")
    \o "\n            Key: " \o Get(space, "key", "Unknown")
    \o "\n            Type: " \o Get(space, "type", "Unknown")
    \o "\n            Description: "
    \o Get(Get(Get(space, "description", EmptyDict), "plain", EmptyDict),
           "value", "No description")
    \o "\n            "

\* lines 96-110
list_spaces(c, d) ==
    IF IsError(d) THEN ReturnDict(d)
    ELSE LET items == Get(d, "results", <<>>)
             result == [i \in 1..Len(items) |-> space_info(items[i])]
         IN  ReturnStr(IF Len(result) > 0 THEN Join(result, Separator)
                       ELSE "No spaces found")

\* lines 119-122
get_page_content_url(c) == Fmt(CONFLUENCE_BASE_URL) \o "/content/" \o c.page_id

get_page_content_params(c) == [expand |-> "body.storage,version,space,metadata.labels"]

\* f"{version}" of data.get("version", {}).get("number", "Unknown")
version_number(d) ==
    LET version == Get(d, "version", EmptyDict)
    IN  IF "number" \in DOMAIN version THEN PyStr(version.number) ELSE "Unknown"

\* line 133: label.get("name") is None for a label entry without a name
label_names(d) ==
    LET entries == Get(Get(Get(d, "metadata", EmptyDict), "labels", EmptyDict),
                       "results", <<>>)
    IN  [i \in 1..Len(entries) |->
            IF "name" \in DOMAIN entries[i] THEN Some(entries[i].name) ELSE None]

\* lines 125-143; ', '.join(labels) raises TypeError on a None item
get_page_content(c, d) ==
    IF IsError(d) THEN ReturnDict(d)
    ELSE LET title == Get(d, "title", "Unknown")
             space == Get(Get(d, "space", EmptyDict), "name", "Unknown")
             content == Get(Get(Get(d, "body", EmptyDict), "storage", EmptyDict),
                            "value", "No content")
             labels == label_names(d)
         IN  IF \E i \in 1..Len(labels) : labels[i] = None THEN Raise("TypeError")
             ELSE ReturnStr(
                    "\n        Title: " \o title
                    \o "\n        Space: " \o space
                    \o "\n        Version: " \o version_number(d)
                    \o "\n        Labels: "
                    \o (IF Len(labels) > 0
                        THEN Join([i \in 1..Len(labels) |-> labels[i][1]], ", ")
                        ELSE "No labels")
                    \o "\n\n        Content:\n        " \o content
                    \o "\n        ")

\* lines 160-171
search_content_url == Fmt(CONFLUENCE_BASE_URL) \o "/content/search"

\* "if space_key is not None": an empty space key still adds the space filter
cql_key_not_none(c) ==
    LET text == "text ~ \"" \o c.query \o "\""
    IN  IF c.space_key # None
        THEN text \o " AND space.key = \"" \o c.space_key[1] \o "\""
        ELSE text

cql(c) ==
    LET text == "text ~ \"" \o c.query \o "\""
    IN  IF Truthy(c.space_key)
        THEN text \o " AND space.key = \"" \o c.space_key[1] \o "\""
        ELSE text

search_content_params(c) ==
    [cql |-> cql(c),
     limit |-> Arg(c.limit, DefaultLimit),
     start |-> Arg(c.start, DefaultStart),
     expand |-> "space,version"]

\* lines 180-186
content_info(content) ==
    "\nTitle: " \o Get(content, "title", "Unknown")
    \o "\nType: " \o Get(content, "type", "Unknown")
    \o "\nSpace: " \o Get(Get(content, "space", EmptyDict), "name", "Unknown")
    \o "\nID: " \o Get(content, "id", "Unknown")
    \o "\nLast Updated: " \o Get(Get(content, "version", EmptyDict), "when", "Unknown")
    \o "\n"

\* lines 174-189
search_content(c, d) ==
    IF IsError(d) THEN ReturnDict(d)
    ELSE LET items == Get(d, "results", <<>>)
             result == [i \in 1..Len(items) |-> content_info(items[i])]
         IN  ReturnStr(IF Len(result) > 0 THEN Join(result, Separator)
                       ELSE "No results found")

\* lines 204-211
list_pages_in_space_url == Fmt(CONFLUENCE_BASE_URL) \o "/content"

list_pages_in_space_params(c) ==
    [spaceKey |-> c.space_key,
     type |-> "page",
     limit |-> Arg(c.limit, DefaultLimit),
     start |-> Arg(c.start, DefaultStart),
     expand |-> "version"]

\* lines 220-224
page_info(page) ==
    "\nTitle: " \o Get(page, "title", "Unknown")
    \o "\nID: " \o Get(page, "id", "Unknown")
    \o "\nLast Updated: " \o Get(Get(page, "version", EmptyDict), "when", "Unknown")
    \o "\n"

\* lines 214-227
list_pages_in_space(c, d) ==
    IF IsError(d) THEN ReturnDict(d)
    ELSE LET items == Get(d, "results", <<>>)
             result == [i \in 1..Len(items) |-> page_info(items[i])]
         IN  ReturnStr(IF Len(result) > 0 THEN Join(result, Separator)
                       ELSE "No pages found in space " \o c.space_key)

Tools == {"list_spaces", "get_page_content", "search_content", "list_pages_in_space"}

\* the url, method and params a call hands to make_confluence_request; a call
\* whose tool is "make_confluence_request" is the adapter called directly
UrlOf(c) ==
    CASE c.tool = "list_spaces" -> list_spaces_url
      [] c.tool = "get_page_content" -> get_page_content_url(c)
      [] c.tool = "search_content" -> search_content_url
      [] c.tool = "list_pages_in_space" -> list_pages_in_space_url
      [] OTHER -> c.url

ParamsOf(c) ==
    CASE c.tool = "list_spaces" -> list_spaces_params(c)
      [] c.tool = "get_page_content" -> get_page_content_params(c)
      [] c.tool = "search_content" -> search_content_params(c)
      [] c.tool = "list_pages_in_space" -> list_pages_in_space_params(c)
      [] OTHER -> c.params

\* what the call returns once make_confluence_request has returned d
ResultOf(c, d) ==
    CASE c.tool = "list_spaces" -> list_spaces(c, d)
      [] c.tool = "get_page_content" -> get_page_content(c, d)
      [] c.tool = "search_content" -> search_content(c, d)
      [] c.tool = "list_pages_in_space" -> list_pages_in_space(c, d)
      [] OTHER -> ReturnDict(d)

-----------------------------------------------------------------------------
(* One invocation: a tool call of the running server, or a direct call of   *)
(* make_confluence_request. The call runs up to the awaited HTTP call in    *)
(* one step (Invoke) and from the HTTP call's end to its own end in         *)
(* another (Respond); Discard drops the finished call's frame.              *)

\* the call c starts: the handler builds url and params (lines 86-93, 119-122,
\* 160-171, 204-211) and make_confluence_request runs lines 46-64 up to the
\* awaited client.get (method GET) or client.request (any other method), either
\* of which is one HTTP request
Invoke(c) ==
    /\ phase = "running"
    /\ pc = "idle"
    /\ call' = c
    /\ url' = UrlOf(c)
    /\ params' = ParamsOf(c)
    /\ outcome' = NoOutcome
    /\ IF MissingCredentials
       THEN LET r == ResultOf(c, CredentialsError)
            IN  /\ data' = CredentialsError
                /\ client' = "none"
                /\ requests' = 0
                /\ adapter' = "returned"
                /\ events' = <<"return">>
                /\ ret' = [type |-> r.type, val |-> r.val]
                /\ exc' = r.exc
                /\ pc' = "returned"
       ELSE IF ~AsciiEncodable(auth_string)
       THEN /\ data' = EmptyDict
            /\ client' = "none"
            /\ requests' = 0
            /\ adapter' = "raised"
            /\ events' = <<"raise">>
            /\ ret' = [type |-> "none", val |-> None]
            /\ exc' = "UnicodeEncodeError"
            /\ pc' = "raised"
       ELSE /\ data' = EmptyDict
            /\ client' = "open"
            /\ requests' = 1
            /\ adapter' = "awaiting"
            /\ events' = <<"open", "request">>
            /\ ret' = [type |-> "none", val |-> None]
            /\ exc' = ""
            /\ pc' = "awaiting"
    /\ UNCHANGED config

\* the awaited HTTP call ends with outcome o: lines 62-71 classify it, the
\* async with block closes the client, and the caller runs to its end
Respond(o) ==
    /\ pc = "awaiting"
    /\ LET d == Classify(o)
           r == ResultOf(call, d)
       IN  /\ outcome' = o
           /\ data' = d
           /\ adapter' = "returned"
           /\ client' = "closed"
           /\ events' = events \o <<"close", IF r.exc = "" THEN "return" ELSE "raise">>
           /\ ret' = [type |-> r.type, val |-> r.val]
           /\ exc' = r.exc
           /\ pc' = IF r.exc = "" THEN "returned" ELSE "raised"
    /\ UNCHANGED <<config, call, url, params, requests>>

\* the finished call's frame is dropped; the next invocation starts afresh
Discard ==
    /\ pc \in {"returned", "raised"}
    /\ pc' = "idle"
    /\ call' = NoCall
    /\ url' = ""
    /\ params' = EmptyDict
    /\ client' = "none"
    /\ requests' = 0
    /\ adapter' = "idle"
    /\ outcome' = NoOutcome
    /\ events' = <<>>
    /\ data' = EmptyDict
    /\ ret' = [type |-> "none", val |-> None]
    /\ exc' = ""
    /\ UNCHANGED config

-----------------------------------------------------------------------------
(* Inputs: environments, calls and HTTP outcomes.                          *)

\* sequences over S of length at most n
SeqsUpTo(S, n) == UNION {[1..k -> S] : k \in 0..n}

\* mappings holding any subset of the keys of the mapping full
SubDicts(full) == {[k \in S |-> full[k]] : S \in SUBSET DOMAIN full}

BaseUrls == {None, Some(""), Some("http://fake-confluence-url.com/rest/api")}
Usernames == {None, Some(""), Some("testuser"), Some("usér")}
ApiTokens == {None, Some(""), Some("testtoken")}
Ports == {None, Some("8888"), Some(" 80 "), Some("abc"), Some("")}

Environments ==
    [CONFLUENCE_BASE_URL : BaseUrls, USERNAME : Usernames, API_TOKEN : ApiTokens,
     PORT : Ports]

\* the environment of test_confluence.py's fixture, lines 10-20
FixtureEnv ==
    [CONFLUENCE_BASE_URL |-> Some("http://fake-confluence-url.com/rest/api"),
     USERNAME |-> Some("testuser"),
     API_TOKEN |-> Some("testtoken"),
     PORT |-> Some("8888")]

Limits == {None, Some(0), Some(10)}
Starts == {None, Some(5), Some(-1)}
SpaceQueries == {None, Some(""), Some("MySpace")}
SearchQueries == {"test query", "say \"hi\""}
SpaceKeyArgs == {None, Some(""), Some("DEV")}
SpaceKeys == {"DEV", ""}
PageIds == {"12345"}

ListSpacesCalls ==
    {[tool |-> "list_spaces", query |-> q, limit |-> l, start |-> s] :
        q \in SpaceQueries, l \in Limits, s \in Starts}

GetPageContentCalls == {[tool |-> "get_page_content", page_id |-> p] : p \in PageIds}

SearchContentCalls ==
    {[tool |-> "search_content", query |-> q, space_key |-> k, limit |-> l, start |-> s] :
        q \in SearchQueries, k \in SpaceKeyArgs, l \in Limits, s \in Starts}

ListPagesCalls ==
    {[tool |-> "list_pages_in_space", space_key |-> k, limit |-> l, start |-> s] :
        k \in SpaceKeys, l \in Limits, s \in Starts}

\* upstream objects with every rendered field present
FullSpace ==
    [name |-> "Engineering", key |-> "ENG", type |-> "global",
     description |-> [plain |-> [value |-> "Team space"]]]

FullContent ==
    [title |-> "Roadmap", type |-> "page", id |-> "98",
     space |-> [name |-> "Engineering"], version |-> [when |-> "2024-05-01"]]

FullPage == [title |-> "Roadmap", id |-> "98", version |-> [when |-> "2024-05-01"]]

FullItem(tool) ==
    CASE tool = "list_spaces" -> FullSpace
      [] tool = "search_content" -> FullContent
      [] tool = "list_pages_in_space" -> FullPage
      [] OTHER -> EmptyDict

\* upstream objects in which any subset of the rendered fields is absent: a
\* nested field of a space, a page or a page document at any level of its path,
\* a nested field of a search hit together with the object that holds it
SpaceItems ==
    UNION {SubDicts([FullSpace EXCEPT !.description = dsc]) :
           dsc \in {EmptyDict, [plain |-> EmptyDict], FullSpace.description}}

ContentItems == SubDicts(FullContent)

PageItems ==
    UNION {SubDicts([FullPage EXCEPT !.version = v]) :
           v \in {EmptyDict, FullPage.version}}

LabelEntries == {EmptyDict, [name |-> "draft"]}

PageDocs ==
    UNION {SubDicts([title |-> "Roadmap", space |-> sp, version |-> v, body |-> b,
                     metadata |-> m]) :
           sp \in {EmptyDict, [name |-> "Engineering"]},
           v \in {EmptyDict, [number |-> 12]},
           b \in {EmptyDict, [storage |-> EmptyDict], [storage |-> [value |-> "<p>Hi</p>"]]},
           m \in {EmptyDict, [labels |-> EmptyDict]}
                 \cup {[labels |-> [results |-> ls]] : ls \in SeqsUpTo(LabelEntries, MaxLabels)}}

\* a success payload: a result list, or no "results" key at all
ListPayloads(Items) == {EmptyDict} \cup {[results |-> l] : l \in SeqsUpTo(Items, MaxItems)}

\* every payload shape the tool's handler may be handed
PayloadsOf(tool) ==
    CASE tool = "list_spaces" -> ListPayloads(SpaceItems)
      [] tool = "get_page_content" -> PageDocs
      [] tool = "search_content" -> ListPayloads(ContentItems)
      [] tool = "list_pages_in_space" -> ListPayloads(PageItems)
      [] OTHER -> {EmptyDict}

\* payloads of complete objects only
FullPayloadsOf(tool) ==
    IF tool = "get_page_content"
    THEN {[title |-> "Roadmap", space |-> [name |-> "Engineering"],
           version |-> [number |-> 12], body |-> [storage |-> [value |-> "<p>Hi</p>"]],
           metadata |-> [labels |-> [results |-> <<[name |-> "draft"]>>]]]}
    ELSE ListPayloads({FullItem(tool)})

Failure(kind, status, msg) ==
    [kind |-> kind, status |-> status, parses |-> FALSE, body |-> EmptyDict, msg |-> msg]

FailureOutcomes ==
    {Failure("network", 0, "All connection attempts failed"),
     Failure("network", 0, ""),
     Failure("other", 0, "Event loop is closed"),
     Failure("response", 401, "Client error '401 Unauthorized'"),
     Failure("response", 500, "Server error '500 Internal Server Error'"),
     Failure("response", 200, "Expecting value: line 1 column 1 (char 0)")}

Success(b) == [kind |-> "response", status |-> 200, parses |-> TRUE, body |-> b, msg |-> ""]

-----------------------------------------------------------------------------
(* Spec: the process from its start. The environment is any combination of *)
(* present, empty and missing variables; a server that came up is called   *)
(* with every argument combination of the four tools, and the upstream     *)
(* fails in every way or answers with complete objects.                    *)

Init ==
    /\ env \in Environments
    /\ phase = "loading"
    /\ port = None
    /\ CONFLUENCE_BASE_URL = None
    /\ USERNAME = None
    /\ API_TOKEN = None
    /\ InvocationIdle

CallListSpaces == \E c \in ListSpacesCalls : Invoke(c)

CallGetPageContent == \E c \in GetPageContentCalls : Invoke(c)

CallSearchContent == \E c \in SearchContentCalls : Invoke(c)

CallListPagesInSpace == \E c \in ListPagesCalls : Invoke(c)

HttpFails == pc = "awaiting" /\ \E o \in FailureOutcomes : Respond(o)

HttpAnswers == pc = "awaiting" /\ \E b \in FullPayloadsOf(call.tool) : Respond(Success(b))

Next ==
    \/ Startup
    \/ CallListSpaces
    \/ CallGetPageContent
    \/ CallSearchContent
    \/ CallListPagesInSpace
    \/ HttpFails
    \/ HttpAnswers
    \/ Discard

Spec == Init /\ [][Next]_vars

-----------------------------------------------------------------------------
(* SpecPayloads: the server started from the test fixture's environment;   *)
(* each tool is called with its default arguments and the upstream answers *)
(* with every payload shape.                                               *)

InitPayloads ==
    /\ env = FixtureEnv
    /\ phase = "loading"
    /\ port = None
    /\ CONFLUENCE_BASE_URL = None
    /\ USERNAME = None
    /\ API_TOKEN = None
    /\ InvocationIdle

DefaultCalls ==
    {[tool |-> "list_spaces", query |-> None, limit |-> None, start |-> None],
     [tool |-> "get_page_content", page_id |-> "12345"],
     [tool |-> "search_content", query |-> "test query", space_key |-> None,
      limit |-> None, start |-> None]}
    \cup {[tool |-> "list_pages_in_space", space_key |-> k, limit |-> None, start |-> None] :
            k \in SpaceKeys}

CallDefault == \E c \in DefaultCalls : Invoke(c)

HttpAnswersAny == pc = "awaiting" /\ \E b \in PayloadsOf(call.tool) : Respond(Success(b))

NextPayloads ==
    \/ Startup
    \/ CallDefault
    \/ HttpFails
    \/ HttpAnswersAny
    \/ Discard

SpecPayloads == InitPayloads /\ [][NextPayloads]_vars

-----------------------------------------------------------------------------
(* SpecRequest: make_confluence_request as a function of the module        *)
(* globals it reads on every call (lines 46 and 50). The module was loaded *)
(* under the test fixture's environment; its globals then hold any value,  *)
(* None and "" included, as they do for a caller that imports the module   *)
(* and rebinds them. The function is called directly with any url, method  *)
(* and params, and through the tools.                                      *)

InitRequest ==
    /\ env = FixtureEnv
    /\ phase = "running"
    /\ port = Some(PortSetting(FixtureEnv))
    /\ CONFLUENCE_BASE_URL \in BaseUrls
    /\ USERNAME \in Usernames
    /\ API_TOKEN \in ApiTokens
    /\ InvocationIdle

DirectCalls ==
    {[tool |-> "make_confluence_request", url |-> u, method |-> m, params |-> p] :
        u \in {"http://fake/api", "http://fake-confluence-url.com/rest/api/space"},
        m \in {"GET", "POST"},
        p \in {EmptyDict, [limit |-> 10]}}

CallDirect == \E c \in DirectCalls : Invoke(c)

NextRequest ==
    \/ CallDirect
    \/ CallDefault
    \/ HttpFails
    \/ HttpAnswers
    \/ Discard

SpecRequest == InitRequest /\ [][NextRequest]_vars

-----------------------------------------------------------------------------
(* Properties.                                                             *)

Finished == pc \in {"returned", "raised"}

ListTools == {"list_spaces", "search_content", "list_pages_in_space"}

\* the transport handed the caller a success payload
GotPayload ==
    /\ adapter = "returned"
    /\ outcome.kind = "response"
    /\ outcome.status = 200
    /\ outcome.parses

\* how often sub occurs in s
CountOcc(s, sub) ==
    Cardinality({i \in 1..(Len(s) - Len(sub) + 1) : SubSeq(s, i, i + Len(sub) - 1) = sub})

\* a required variable that is missing or empty
Unset(o) == o = None \/ o = Some("")

\* C1: whenever make_confluence_request returned an error mapping {error: m} to a
\* tool handler, the handler's return value is the string m itself.
C1_ErrorMessageReturned ==
    (Finished /\ call.tool \in Tools /\ adapter = "returned" /\ "error" \in DOMAIN data)
        => (ret.type = "str" /\ ret.val = data.error)

\* C2: a call of make_confluence_request never ends in an exception: it returns
\* the parsed payload on a success status and otherwise a mapping whose only key
\* is "error", whose message contains "Error making request" on an HTTP error.
C2_NeverRaises ==
    Finished =>
        /\ adapter = "returned"
        /\ IF GotPayload THEN data = outcome.body ELSE DOMAIN data = {"error"}
        /\ (outcome.kind = "response" /\ outcome.status >= 400)
              => Contains(data.error, "Error making request")

\* the first line of a rendered block, by tool
BlockHead(tool) == IF tool = "list_spaces" THEN "Space: " ELSE "Title: "

\* the placeholder shown on the line of a field, when the field is absent
Placeheld(text, line, present, placeholder) == present \/ Contains(text, line \o placeholder)

HasPath2(d, a, b) == a \in DOMAIN d /\ b \in DOMAIN d[a]

HasPath3(d, a, b, c) == HasPath2(d, a, b) /\ c \in DOMAIN d[a][b]

\* C3: on a success payload every handler returns a text, whichever rendered
\* fields are absent, and the text shows the placeholder of each absent field.
C3_AbsentFieldsDegrade ==
    (Finished /\ call.tool \in Tools /\ GotPayload) =>
        /\ exc = ""
        /\ ret.type = "str"
        /\ call.tool = "get_page_content" =>
            LET d == outcome.body
            IN  /\ Placeheld(ret.val, "Title: ", "title" \in DOMAIN d, "Unknown")
                /\ Placeheld(ret.val, "Space: ", HasPath2(d, "space", "name"), "Unknown")
                /\ Placeheld(ret.val, "Version: ", HasPath2(d, "version", "number"), "Unknown")
                /\ Placeheld(ret.val, "Content:\n        ",
                             HasPath3(d, "body", "storage", "value"), "No content")
                /\ Placeheld(ret.val, "Labels: ",
                             HasPath3(d, "metadata", "labels", "results")
                                 /\ d.metadata.labels.results # <<>>,
                             "No labels")
        /\ (call.tool \in ListTools /\ HasPath2(outcome.body, "results", 1)) =>
            LET item == outcome.body.results[1]
            IN  /\ call.tool # "list_spaces" =>
                       Placeheld(ret.val, "Title: ", "title" \in DOMAIN item, "Unknown")
                /\ call.tool = "list_spaces" =>
                       /\ Placeheld(ret.val, "Space: ", "name" \in DOMAIN item, "Unknown")
                       /\ Placeheld(ret.val, "Description: ",
                                    HasPath3(item, "description", "plain", "value"),
                                    "No description")

C5_MissingCredentialsAbort ==
    /\ (Unset(env.CONFLUENCE_BASE_URL) \/ Unset(env.USERNAME) \/ Unset(env.API_TOKEN))
          => /\ phase \in {"loading", "aborted"}
             /\ pc = "idle"
             /\ call = NoCall
             /\ requests = 0
    /\ (phase # "loading" /\ env.PORT \in {None, Some("abc"), Some("")})
          => port = Some(8000)

C5_Witness ==
    /\ phase = "aborted"
    /\ env.CONFLUENCE_BASE_URL = None
    /\ env.USERNAME = Some("testuser")
    /\ env.API_TOKEN = Some("testtoken")
    /\ env.PORT = Some("abc")
    /\ port = Some(8000)

\* C6: on a success payload whose result list is empty or absent, list_spaces,
\* search_content and list_pages_in_space return "No spaces found", "No results
\* found" and "No pages found in space <space_key>"; on a list of n > 0 items they
\* return n blocks with the separator "\n---\n" between them.
C6_SentinelOrBlocks ==
    (pc = "returned" /\ call.tool \in ListTools /\ GotPayload) =>
        LET n == IF "results" \in DOMAIN outcome.body THEN Len(outcome.body.results) ELSE 0
        IN  /\ ret.type = "str"
            /\ n = 0 =>
                  ret.val = CASE call.tool = "list_spaces" -> "No spaces found"
                              [] call.tool = "search_content" -> "No results found"
                              [] call.tool = "list_pages_in_space" ->
                                    "No pages found in space " \o call.space_key
            /\ n > 0 =>
                  /\ CountOcc(ret.val, "\n---\n") = n - 1
                  /\ CountOcc(ret.val, BlockHead(call.tool)) = n
                  /\ SubSeq(ret.val, 1, 5) # "\n---\n"
                  /\ SubSeq(ret.val, Len(ret.val) - 4, Len(ret.val)) # "\n---\n"

C6_Witness ==
    /\ pc = "returned"
    /\ call.tool = "search_content"
    /\ GotPayload
    /\ HasPath2(outcome.body, "results", 2)
    /\ CountOcc(ret.val, "\n---\n") = 1

\* C7: the cql parameter of search_content is text ~ "q" when the space key is
\* omitted or empty and text ~ "q" AND space.key = "k" otherwise, q and k inserted
\* as they are; either way it contains text ~ "q".
C7_CqlExact ==
    call.tool = "search_content" =>
        LET q == call.query
            k == call.space_key
            quote == "\""
            text == "text ~ " \o quote \o q \o quote
        IN  /\ params.cql = IF Unset(k) THEN text
                            ELSE text \o " AND space.key = " \o quote \o k[1] \o quote
            /\ SubSeq(params.cql, 1, Len(text)) = text
            /\ SubSeq(params.cql, 9, 8 + Len(q)) = q

C7_Witness ==
    /\ call.tool = "search_content"
    /\ call.query = "say \"hi\""
    /\ call.space_key = Some("DEV")
    /\ params.cql = "text ~ \"say \"hi\"\" AND space.key = \"DEV\""

\* C8: list_spaces sends name = query exactly when query is a non-empty string,
\* no name parameter when query is omitted or empty, and never a spaceKey.
C8_NameFilter ==
    call.tool = "list_spaces" =>
        /\ "name" \in DOMAIN params <=> ~Unset(call.query)
        /\ "name" \in DOMAIN params => params.name = call.query[1]
        /\ "spaceKey" \notin DOMAIN params

C8_Witness ==
    /\ call.tool = "list_spaces"
    /\ call.query = Some("MySpace")
    /\ params.name = "MySpace"
    /\ DOMAIN params = {"limit", "start", "expand", "name"}

\* C9: list_spaces, search_content and list_pages_in_space pass limit and start
\* on as given, and as 25 and 0 when the caller omits them.
C9_Pagination ==
    call.tool \in ListTools =>
        /\ params.limit = IF call.limit = None THEN 25 ELSE call.limit[1]
        /\ params.start = IF call.start = None THEN 0 ELSE call.start[1]

C9_Witness ==
    /\ call.tool = "list_pages_in_space"
    /\ call.limit = Some(0)
    /\ call.start = None
    /\ params.limit = 0
    /\ params.start = 0

\* C10: a finished tool invocation has opened its client, issued exactly one
\* HTTP request, closed the client and then returned, in that order.
C10_OneRequestPerInvocation ==
    (Finished /\ call.tool \in Tools) =>
        /\ events = <<"open", "request", "close", "return">>
        /\ requests = 1
        /\ client = "closed"

====
